---- MODULE Spec2Model ----
(***************************************************************************)
(* A model of src/main.cpp: the three prime-finding functions simplest,    *)
(* using_remove_if and optimal_case, the harness time_and_print_result,    *)
(* and main.                                                               *)
(*                                                                         *)
(* unsigned long is W bits wide (arithmetic modulo 2^W).  Memory is not    *)
(* bounded: allocation never fails.  Iterator offsets are difference_type  *)
(* values and do not wrap.                                                 *)
(*                                                                         *)
(* Two places of the code have undefined behaviour, and one has            *)
(* implementation-defined behaviour; each is a choice over the outcomes    *)
(* a build can produce:                                                    *)
(*   - advance(i, n) moving a vector<bool> iterator beyond end(): an       *)
(*     unchecked build computes the offset, a checked-iterator build       *)
(*     aborts;                                                             *)
(*   - value % n with n = 0 (after ++n has wrapped): the division traps,   *)
(*     or the remainder is the dividend (non-trapping hardware);           *)
(*   - high_resolution_clock may or may not be a steady clock.             *)
(***************************************************************************)
EXTENDS Integers, Sequences, FiniteSets, TLC

VARIABLES
    count,      \* the bound passed to every algorithm (main: const count)
    s_pc, s_n, s_l, s_wrapped,   \* simplest: position, n, vector l, ++n carried
    u_pc, u_n, u_l, u_wrapped,   \* using_remove_if: position, n, forward_list l
    o_pc, o_n, o_i, flags, o_l,  \* optimal_case: position, n, iterator offset, flags, l
    m_pc, m_k,                   \* main / harness position, index of the algorithm
    out,                         \* the lines written to stdout so far (kind, algorithm)
    line,                        \* the content of the last line written
    t0, t1,                      \* the harness's two clock samples (ns)
    is_steady,                   \* high_resolution_clock::is_steady of the build
    exited,                      \* how the process ended
    calls                        \* how often each algorithm was entered

vars == <<count, s_pc, s_n, s_l, s_wrapped, u_pc, u_n, u_l, u_wrapped,
          o_pc, o_n, o_i, flags, o_l, m_pc, m_k, out, line, t0, t1,
          is_steady, exited, calls>>

s_vars == <<s_pc, s_n, s_l, s_wrapped>>
u_vars == <<u_pc, u_n, u_l, u_wrapped>>
o_vars == <<o_pc, o_n, o_i, flags, o_l>>
m_vars == <<m_pc, m_k, out, line, t0, t1, exited>>

\* Width of unsigned long in the model.
W == 4

\* Clock samples are drawn from multiples of half a millisecond up to
\* MaxTick halves, and the nanosecond just before each.
MaxTick == 4

\* ULONG_MAX
MaxUL == 2^W - 1

\* Unsigned arithmetic wraps modulo 2^W.
Wrap(x) == x % (MaxUL + 1)

Algs == <<"simplest", "using_remove_if", "optimal_case">>

AlgSet == {Algs[k] : k \in 1..3}

---------------------------------------------------------------------------
(* Pure helpers                                                            *)

Seed_FromZero(c) == [k \in 1..c |-> k - 1]

\* vector<unsigned long> l(count); iota(l.begin(), l.end(), 1)
Seed(c) == [k \in 1..c |-> k]

\* value % n.  For n = 0 on non-trapping hardware the remainder is the dividend.
Mod(v, n) == IF n = 0 THEN v ELSE v % n

ErasePred_NoGt(v, n) == Mod(v, n) = 0

\* simplest, line 25: (*v > n) && (*v % n == 0)
ErasePred(v, n) == (v > n) /\ (Mod(v, n) = 0)

LambdaPred_Geq(value, n) == (value >= n) /\ (Mod(value, n) = 0)

\* using_remove_if, line 50: the lambda's body
LambdaPred(value, n) == (value > n) /\ (Mod(value, n) = 0)

\* vector::erase(v): the elements after v shift down by one
Erase(l, v) == [k \in 1..(Len(l) - 1) |-> IF k < v THEN l[k] ELSE l[k + 1]]

RECURSIVE EraseLoop(_, _, _)
\* simplest, lines 23-30: the iterator loop, v an index into l
EraseLoop(l, v, n) ==
    IF v > Len(l) THEN l
    ELSE IF ErasePred(l[v], n) THEN EraseLoop(Erase(l, v), v, n)
    ELSE EraseLoop(l, v + 1, n)

\* forward_list::remove_if: one pass, the order of the kept elements preserved
RemoveIf(l, n) == SelectSeq(l, LAMBDA value : ~LambdaPred(value, n))

\* The % operator is evaluated with a zero divisor: n = 0 and some element > n.
DivByZero(l, n) == n = 0 /\ \E k \in 1..Len(l) : l[k] > n

\* vector<bool> flags(count + 1, true); flags[k + 1] is the flag of offset k
InitFlags(c) == [k \in 1..Wrap(c + 1) |-> TRUE]

\* flags.size()
FlagsSize == Len(flags)

\* the loop bound of line 75: flags.size() / 2
OuterBound(size) == size \div 2

WalkContinues_OffByOne(i, size) == i < size - 1

\* line 91: i < flags.end()
WalkContinues(i, size) == i < size

CopyFlags_SkipOne(f) ==
    SelectSeq([k \in 1..(Len(f) - 1) |-> k], LAMBDA k : k > 1 /\ f[k + 1])

\* lines 100-106: the offsets, except offset 0, whose flag is true, ascending
CopyFlags(f) == SelectSeq([k \in 1..(Len(f) - 1) |-> k], LAMBDA k : f[k + 1])

\* duration_cast truncates toward zero
TruncDiv(a, b) == IF a >= 0 THEN a \div b ELSE -((-a) \div b)

\* nanoseconds per millisecond (duration_cast<milliseconds>)
NsPerMs == 1000000

Ticks == {k * (NsPerMs \div 2) : k \in 0..MaxTick}
            \cup {k * (NsPerMs \div 2) - 1 : k \in 1..MaxTick}

\* the algorithm main's k-th call runs, and whether the harness lets it run
Active(a) == m_pc = "unit" \/ (m_pc = "run" /\ Algs[m_k] = a)

Result(a) == IF a = "simplest" THEN s_l ELSE IF a = "using_remove_if" THEN u_l ELSE o_l

PcOf(a) == IF a = "simplest" THEN s_pc ELSE IF a = "using_remove_if" THEN u_pc ELSE o_pc

Called(a) == calls' = [calls EXCEPT ![a] = @ + 1]

---------------------------------------------------------------------------
(* simplest, lines 13-34                                                   *)

SEntry ==
    /\ Active("simplest") /\ s_pc = "idle"
    /\ s_l' = Seed(count)
    /\ s_n' = 2
    /\ s_pc' = "loop"
    /\ Called("simplest")
    /\ UNCHANGED <<count, s_wrapped, u_vars, o_vars, m_vars, is_steady>>

\* one outer round: the loop test n <= count, the erase loop, ++n
SRound ==
    /\ Active("simplest") /\ s_pc = "loop" /\ s_n <= count
    /\ \/ /\ s_l' = EraseLoop(s_l, 1, s_n)
          /\ s_n' = Wrap(s_n + 1)
          /\ s_wrapped' = (s_wrapped \/ s_n = MaxUL)
          /\ s_pc' = "loop"
       \/ /\ DivByZero(s_l, s_n)
          /\ s_pc' = "aborted"
          /\ UNCHANGED <<s_l, s_n, s_wrapped>>
    /\ UNCHANGED <<count, u_vars, o_vars, m_vars, is_steady, calls>>

SReturn ==
    /\ Active("simplest") /\ s_pc = "loop" /\ ~(s_n <= count)
    /\ s_pc' = "done"
    /\ UNCHANGED <<count, s_n, s_l, s_wrapped, u_vars, o_vars, m_vars, is_steady, calls>>

---------------------------------------------------------------------------
(* using_remove_if, lines 39-55                                            *)

UEntry ==
    /\ Active("using_remove_if") /\ u_pc = "idle"
    /\ u_l' = Seed(count)
    /\ u_n' = 2
    /\ u_pc' = "loop"
    /\ Called("using_remove_if")
    /\ UNCHANGED <<count, u_wrapped, s_vars, o_vars, m_vars, is_steady>>

URound ==
    /\ Active("using_remove_if") /\ u_pc = "loop" /\ u_n <= count
    /\ \/ /\ u_l' = RemoveIf(u_l, u_n)
          /\ u_n' = Wrap(u_n + 1)
          /\ u_wrapped' = (u_wrapped \/ u_n = MaxUL)
          /\ u_pc' = "loop"
       \/ /\ DivByZero(u_l, u_n)
          /\ u_pc' = "aborted"
          /\ UNCHANGED <<u_l, u_n, u_wrapped>>
    /\ UNCHANGED <<count, s_vars, o_vars, m_vars, is_steady, calls>>

UReturn ==
    /\ Active("using_remove_if") /\ u_pc = "loop" /\ ~(u_n <= count)
    /\ u_pc' = "done"
    /\ UNCHANGED <<count, u_n, u_l, u_wrapped, s_vars, o_vars, m_vars, is_steady, calls>>

---------------------------------------------------------------------------
(* optimal_case, lines 68-109                                              *)

\* advance(i, n), then continue at position next.  Moving beyond end() is
\* undefined: the offset is computed, or a checked iterator aborts.
Advance(next) ==
    \/ /\ o_i' = o_i + o_n
       /\ o_pc' = next
    \/ /\ o_i + o_n > FlagsSize
       /\ o_pc' = "aborted"
       /\ o_i' = o_i

OEntry ==
    /\ Active("optimal_case") /\ o_pc = "idle"
    /\ flags' = InitFlags(count)
    /\ o_n' = 2
    /\ o_pc' = "outer"
    /\ Called("optimal_case")
    /\ UNCHANGED <<count, o_i, o_l, s_vars, u_vars, m_vars, is_steady>>

\* lines 75-79: the loop test holds; i = flags.begin(); advance(i, n)
OOuter ==
    /\ Active("optimal_case") /\ o_pc = "outer" /\ o_n <= OuterBound(FlagsSize)
    /\ o_i' = o_n
    /\ o_pc' = "check"
    /\ UNCHANGED <<count, o_n, flags, o_l, s_vars, u_vars, m_vars, is_steady, calls>>

\* lines 83-85: *i == false: continue (++n)
OSkip ==
    /\ Active("optimal_case") /\ o_pc = "check" /\ flags[o_i + 1] = FALSE
    /\ o_n' = Wrap(o_n + 1)
    /\ o_pc' = "outer"
    /\ UNCHANGED <<count, o_i, flags, o_l, s_vars, u_vars, m_vars, is_steady, calls>>

\* line 88: advance to the first multiple
OFirstMultiple ==
    /\ Active("optimal_case") /\ o_pc = "check" /\ flags[o_i + 1] = TRUE
    /\ Advance("walk")
    /\ UNCHANGED <<count, o_n, flags, o_l, s_vars, u_vars, m_vars, is_steady, calls>>

\* lines 91-94: one step of the marking walk
OMark ==
    /\ Active("optimal_case") /\ o_pc = "walk" /\ WalkContinues(o_i, FlagsSize)
    /\ flags' = [flags EXCEPT ![o_i + 1] = FALSE]
    /\ Advance("walk")
    /\ UNCHANGED <<count, o_n, o_l, s_vars, u_vars, m_vars, is_steady, calls>>

\* the walk is over: ++n
OWalkEnd ==
    /\ Active("optimal_case") /\ o_pc = "walk" /\ ~WalkContinues(o_i, FlagsSize)
    /\ o_n' = Wrap(o_n + 1)
    /\ o_pc' = "outer"
    /\ UNCHANGED <<count, o_i, flags, o_l, s_vars, u_vars, m_vars, is_steady, calls>>

\* lines 100-108: the loop test fails; copy the offsets and return
OCopy ==
    /\ Active("optimal_case") /\ o_pc = "outer" /\ ~(o_n <= OuterBound(FlagsSize))
    /\ o_l' = CopyFlags(flags)
    /\ o_pc' = "done"
    /\ UNCHANGED <<count, o_n, o_i, flags, s_vars, u_vars, m_vars, is_steady, calls>>

---------------------------------------------------------------------------
(* main and time_and_print_result, lines 114-164                           *)

Ev(kind, a) == [ev |-> kind, alg |-> a]

Line(v, u, s) == [val |-> v, unit |-> u, seq |-> s]

alg_vars == <<count, s_vars, u_vars, o_vars, is_steady, calls>>

\* line 146
Banner ==
    /\ m_pc = "banner"
    /\ out' = Append(out, Ev("banner", "main"))
    /\ line' = Line(count, "banner", <<>>)
    /\ m_pc' = "label"
    /\ UNCHANGED <<m_k, t0, t1, exited, alg_vars>>

\* lines 148, 153, 158
Label ==
    /\ m_pc = "label"
    /\ out' = Append(out, Ev("label", Algs[m_k]))
    /\ line' = Line(0, "label", <<>>)
    /\ m_pc' = "t0"
    /\ UNCHANGED <<m_k, t0, t1, exited, alg_vars>>

\* line 117
TakeT0 ==
    /\ m_pc = "t0"
    /\ \E t \in Ticks : t0' = t
    /\ m_pc' = "run"
    /\ UNCHANGED <<m_k, out, line, t1, exited, alg_vars>>

\* line 119: the function under test has returned
TakeT1 ==
    /\ m_pc = "run" /\ PcOf(Algs[m_k]) = "done"
    /\ \E t \in Ticks : (is_steady => t >= t0) /\ t1' = t
    /\ m_pc' = "time"
    /\ UNCHANGED <<m_k, out, line, t0, exited, alg_vars>>

\* the function under test hit a trap or a failed iterator check
Abort ==
    /\ m_pc = "run" /\ PcOf(Algs[m_k]) = "aborted"
    /\ m_pc' = "aborted"
    /\ exited' = "signal"
    /\ UNCHANGED <<m_k, out, line, t0, t1, alg_vars>>

\* lines 122-126
PrintTime ==
    /\ m_pc = "time"
    /\ out' = Append(out, Ev("time", Algs[m_k]))
    /\ line' = IF TruncDiv(t1 - t0, NsPerMs) > 0
               THEN Line(TruncDiv(t1 - t0, NsPerMs), "ms", <<>>)
               ELSE Line(t1 - t0, "ns", <<>>)
    /\ m_pc' = "size"
    /\ UNCHANGED <<m_k, t0, t1, exited, alg_vars>>

\* line 129
PrintSize ==
    /\ m_pc = "size"
    /\ out' = Append(out, Ev("size", Algs[m_k]))
    /\ line' = Line(Len(Result(Algs[m_k])), "primes", <<>>)
    /\ m_pc' = "seq"
    /\ UNCHANGED <<m_k, t0, t1, exited, alg_vars>>

\* lines 132-139, and the return to main
PrintSeq ==
    /\ m_pc = "seq"
    /\ out' = Append(out, Ev("seq", Algs[m_k]))
    /\ line' = Line(0, "seq", Result(Algs[m_k]))
    /\ IF m_k < 3
       THEN m_k' = m_k + 1 /\ m_pc' = "label"
       ELSE m_k' = m_k /\ m_pc' = "return"
    /\ UNCHANGED <<t0, t1, exited, alg_vars>>

\* line 163
Return0 ==
    /\ m_pc = "return"
    /\ m_pc' = "exited"
    /\ exited' = "status0"
    /\ UNCHANGED <<m_k, out, line, t0, t1, alg_vars>>

---------------------------------------------------------------------------
(* Specifications                                                          *)

InitAlgs ==
    /\ count \in 0..MaxUL
    /\ s_pc = "idle" /\ s_n = 0 /\ s_l = <<>> /\ s_wrapped = FALSE
    /\ u_pc = "idle" /\ u_n = 0 /\ u_l = <<>> /\ u_wrapped = FALSE
    /\ o_pc = "idle" /\ o_n = 0 /\ o_i = 0 /\ flags = <<>> /\ o_l = <<>>
    /\ calls = [a \in AlgSet |-> 0]
    /\ out = <<>> /\ line = Line(0, "", <<>>)
    /\ t0 = 0 /\ t1 = 0 /\ m_k = 1
    /\ exited = "no"

\* Each function called once on the bound, independently of the others.
Init ==
    /\ InitAlgs
    /\ m_pc = "unit"
    /\ is_steady = TRUE

Next ==
    \/ SEntry \/ SRound \/ SReturn
    \/ UEntry \/ URound \/ UReturn
    \/ OEntry \/ OOuter \/ OSkip \/ OFirstMultiple \/ OMark \/ OWalkEnd \/ OCopy

Spec == Init /\ [][Next]_vars

\* A call that can take a step eventually takes it.
FairSpec == Spec /\ WF_vars(Next)

\* The program: main drives the three calls through the harness.  main's
\* bound is a constant far below ULONG_MAX: count + 1 does not wrap.
MainInit ==
    /\ InitAlgs
    /\ count < MaxUL
    /\ m_pc = "banner"
    /\ is_steady \in BOOLEAN

MainNext ==
    \/ Next
    \/ Banner \/ Label \/ TakeT0 \/ TakeT1 \/ Abort
    \/ PrintTime \/ PrintSize \/ PrintSeq \/ Return0

MainSpec == MainInit /\ [][MainNext]_vars

---------------------------------------------------------------------------
(* Vocabulary of the properties                                            *)

IsPrime(p) == p >= 2 /\ \A d \in 2..(p - 1) : p % d # 0

\* the primes p with 2 <= p <= N, ascending
PrimesUpTo(N) == SelectSeq([k \in 1..N |-> k], IsPrime)

\* a sequence with the value 1 removed
Strip1(l) == SelectSeq(l, LAMBDA x : x # 1)

Returned(a) == PcOf(a) = "done"

AllReturned == \A a \in AlgSet : Returned(a)

\* the sieve pass of optimal_case is under way or over
InSievePass == o_pc \in {"outer", "check", "walk", "done", "aborted"}

\* the lines main writes, in order
ExpectedOut ==
    <<Ev("banner", "main")>>
    \o <<Ev("label", Algs[1]), Ev("time", Algs[1]), Ev("size", Algs[1]), Ev("seq", Algs[1])>>
    \o <<Ev("label", Algs[2]), Ev("time", Algs[2]), Ev("size", Algs[2]), Ev("seq", Algs[2])>>
    \o <<Ev("label", Algs[3]), Ev("time", Algs[3]), Ev("size", Algs[3]), Ev("seq", Algs[3])>>

IsPrefix(a, b) == Len(a) <= Len(b) /\ \A k \in 1..Len(a) : a[k] = b[k]

---------------------------------------------------------------------------
(* C1                                                                      *)

\* C1 as stated: for every bound N >= 2, the sequence each of the three
\* algorithms returns, with the value 1 removed, is the ascending sequence
\* of all primes p with 2 <= p <= N, each once.
C1_PrimesForEveryBound ==
    \A a \in AlgSet :
        (Returned(a) /\ count >= 2) => Strip1(Result(a)) = PrimesUpTo(count)

\* C1 amended: the same for every bound N with 2 <= N <= ULONG_MAX - 1, the
\* bounds for which count + 1 does not wrap.
C1_PrimesBelowWrap ==
    \A a \in AlgSet :
        (Returned(a) /\ count >= 2 /\ count < MaxUL)
            => Strip1(Result(a)) = PrimesUpTo(count)

\* All three algorithms have returned for the prime bound 13.
C1_Witness ==
    /\ count = 13 /\ AllReturned
    /\ s_l = <<1, 2, 3, 5, 7, 11, 13>>
    /\ u_l = s_l /\ o_l = s_l

---------------------------------------------------------------------------
(* C2                                                                      *)

\* C2 as stated: every value of the sequence each algorithm returns is
\* strictly less than the bound N.
C2_BoundExclusive ==
    \A a \in AlgSet :
        Returned(a) => \A k \in 1..Len(Result(a)) : Result(a)[k] < count

---------------------------------------------------------------------------
(* C3                                                                      *)

\* C3 as stated: for every N >= 1, 1 is the first element of the working
\* collection of simplest and of using_remove_if after every outer round,
\* flag[1] is true in every state of the sieve pass of optimal_case, and 1
\* is the first element of every result.
C3_OneNeverRemoved ==
    count >= 1 =>
        /\ s_pc \in {"loop", "done"} => (Len(s_l) >= 1 /\ s_l[1] = 1)
        /\ u_pc \in {"loop", "done"} => (Len(u_l) >= 1 /\ u_l[1] = 1)
        /\ InSievePass => (FlagsSize >= 2 /\ flags[2] = TRUE)
        /\ o_pc = "done" => (Len(o_l) >= 1 /\ o_l[1] = 1)

\* C3 amended: the same, the part about optimal_case for the bounds
\* 1 <= N <= ULONG_MAX - 1 only (for N = ULONG_MAX its flag sequence is
\* empty and so is its result).
C3_OneNeverRemovedBelowWrap ==
    count >= 1 =>
        /\ s_pc \in {"loop", "done"} => (Len(s_l) >= 1 /\ s_l[1] = 1)
        /\ u_pc \in {"loop", "done"} => (Len(u_l) >= 1 /\ u_l[1] = 1)
        /\ count < MaxUL =>
            /\ InSievePass => (FlagsSize >= 2 /\ flags[2] = TRUE)
            /\ o_pc = "done" => (Len(o_l) >= 1 /\ o_l[1] = 1)

\* Rounds have removed values from both collections, the sieve has cleared
\* flags, and 1 is still there; and a run where all three have returned.
C3_Witness ==
    /\ count = 9 /\ AllReturned
    /\ s_l[1] = 1 /\ u_l[1] = 1 /\ o_l[1] = 1
    /\ Len(s_l) < count /\ flags[5] = FALSE /\ flags[2] = TRUE

---------------------------------------------------------------------------
(* C4                                                                      *)

SmallResult == IF count = 0 THEN <<>> ELSE <<1>>

\* C4: for N < 2 no removal round and no sieve round executes (n stays 2,
\* no flag is cleared) and each algorithm returns the seed: the empty
\* sequence for N = 0, <<1>> for N = 1.
C4_SmallBounds ==
    count < 2 =>
        /\ s_pc \in {"loop", "done"} => (s_n = 2 /\ s_l = SmallResult)
        /\ u_pc \in {"loop", "done"} => (u_n = 2 /\ u_l = SmallResult)
        /\ o_pc \in {"outer", "done"} => (o_n = 2 /\ \A k \in 1..FlagsSize : flags[k])
        /\ o_pc \notin {"check", "walk", "aborted"}
        /\ s_pc # "aborted" /\ u_pc # "aborted"
        /\ \A a \in AlgSet : Returned(a) => Result(a) = SmallResult

\* All three have returned <<1>> for the bound 1.
C4_Witness ==
    /\ count = 1 /\ AllReturned
    /\ s_l = <<1>> /\ u_l = <<1>> /\ o_l = <<1>>

---------------------------------------------------------------------------
(* C5                                                                      *)

\* C5: side by side on the same bound, whenever simplest and
\* using_remove_if have both completed the same rounds 2..n-1 of their
\* first pass, the vector and the forward list hold the same sequence; so
\* the two return the same sequence.
C5_RoundsAgree ==
    /\ ( /\ s_pc \in {"loop", "done"} /\ u_pc \in {"loop", "done"}
         /\ ~s_wrapped /\ ~u_wrapped
         /\ s_n = u_n ) => s_l = u_l
    /\ (s_pc = "done" /\ u_pc = "done") => s_l = u_l

\* Both are between rounds 5 and 6 of the bound 12, multiples removed.
C5_Witness ==
    /\ count = 12
    /\ s_pc = "loop" /\ u_pc = "loop"
    /\ s_n = 6 /\ u_n = 6
    /\ s_l = <<1, 2, 3, 5, 7, 11>> /\ u_l = s_l

---------------------------------------------------------------------------
(* C9                                                                      *)

\* C9: whenever optimal_case is at a candidate n whose flag is false, every
\* multiple k*n with k >= 2 and k*n <= N already has its flag false.
C9_SkipSound ==
    (o_pc = "check" /\ flags[o_i + 1] = FALSE) =>
        \A k \in 2..count : (k * o_n <= count) => flags[k * o_n + 1] = FALSE

\* The loop is at the composite 4, whose multiples 8 and 12 are in range.
C9_Witness ==
    /\ count >= 12
    /\ o_pc = "check" /\ o_n = 4 /\ o_i = 4
    /\ flags[5] = FALSE /\ flags[9] = FALSE /\ flags[13] = FALSE

---------------------------------------------------------------------------
(* C10                                                                     *)

\* C10 as stated: in optimal_case the iterator's offset from flags.begin()
\* is at most flags.size() after every advance, and every write is at an
\* offset <= N.
C10_IteratorInRange ==
    /\ o_pc \in {"check", "walk"} => o_i <= FlagsSize
    /\ (o_pc = "walk" /\ WalkContinues(o_i, FlagsSize)) => o_i <= count

---------------------------------------------------------------------------
(* C8                                                                      *)

\* C8 as stated: for every representable bound, each of the three calls
\* executes finitely many rounds and eventually returns its result.
C8_EveryCallReturns == <>(AllReturned)

---------------------------------------------------------------------------
(* C6                                                                      *)

\* the number of lines written before main's k-th call
LinesBefore(k) == 2 + 4 * (k - 1)

\* C6 as stated: the lines are written in the one fixed order; each
\* algorithm is invoked at most once, only after its label and the whole
\* report of the previous one, and has returned before its report is
\* written; and the run ends with exit status 0, everything written.
C6_FixedOrder ==
    /\ IsPrefix(out, ExpectedOut)
    /\ \A k \in 1..3 :
        /\ calls[Algs[k]] <= 1
        /\ calls[Algs[k]] = 1 => Len(out) >= LinesBefore(k)
        /\ Len(out) > LinesBefore(k) => (calls[Algs[k]] = 1 /\ Returned(Algs[k]))
    /\ exited # "signal"
    /\ m_pc = "exited" => (exited = "status0" /\ out = ExpectedOut)

---------------------------------------------------------------------------
(* C7                                                                      *)

\* C7 as stated: the elapsed value written is non-negative; the unit is ms,
\* the value the whole milliseconds of t1 - t0, exactly when
\* t1 - t0 >= 1 ms, and ns, the value t1 - t0, exactly when t1 - t0 < 1 ms.
C7_ElapsedReport ==
    m_pc = "size" =>
        /\ line.val >= 0
        /\ line.unit = "ms" <=> (t1 - t0 >= NsPerMs)
        /\ line.unit = "ns" <=> (t1 - t0 < NsPerMs)
        /\ line.unit = "ms" => line.val = (t1 - t0) \div NsPerMs
        /\ line.unit = "ns" => line.val = t1 - t0

====
